---- MODULE Spec2Model ----
(***************************************************************************)
(* Model of the composite risk scoring engine of the crypto investment     *)
(* dashboard (src/analysis_engine.py).                                     *)
(*                                                                         *)
(* Numbers.  Python floats are modelled as exact rationals <<n, d>> in     *)
(* lowest terms with d > 0, wrapped in a record [k, v] whose kind k is     *)
(*   "num"  - a number, v its value,                                       *)
(*   "nan"  - the float NaN (json.load accepts the token NaN),             *)
(*   "none" - Python's None (a JSON null, or a key that dict.get misses).  *)
(* Decimal literals of the source are the rationals they denote (0.8 is    *)
(* <<4, 5>>); binary rounding of IEEE doubles is not modelled.             *)
(***************************************************************************)
EXTENDS Integers, Sequences, FiniteSets, TLC

VARIABLES
    weights,          \* the module-level WEIGHTS table
    data,             \* the argument of compute_component_scores
    pc,               \* position of the running call
    err,              \* the exception the call raised, "none" if none
    sentiment_risk,   \* local of compute_component_scores
    cycle_risk,       \* local of compute_component_scores
    idx,              \* position of "for sym in coins"
    frame,            \* locals of the loop body after its latest iteration
    kpi,              \* frame of the latest technical_risk_from_kpis call
    coin_scores,      \* local dict sym -> score
    portfolio_risk,   \* the first component of the returned tuple
    recommendations,  \* main's analysis["recommendations"]
    rec,              \* frame of a derive_recommendation call
    calls,            \* log of the calls that have returned: input and result
    data_json         \* the file data.json: collect_data.main's output dict

vars == <<weights, data, pc, err, sentiment_risk, cycle_risk, idx, frame, kpi,
          coin_scores, portfolio_risk, recommendations, rec, calls,
          data_json>>

----------------------------------------------------------------------------
(* Exact rational arithmetic standing for float arithmetic.                *)

Abs(n) == IF n < 0 THEN -n ELSE n

\* The only element of a singleton set.  Binding an operand as the element
\* of a singleton evaluates it once, however often it is used afterwards.
Pick(S) == CHOOSE e \in S : TRUE

RECURSIVE Gcd(_, _)
Gcd(a, b) == IF b = 0 THEN a ELSE Pick({Gcd(b, r) : r \in {a % b}})

\* The rational n/d (d # 0) in lowest terms with a positive denominator.
RatOf(p, q) ==
    Pick({<<((IF q < 0 THEN -1 ELSE 1) * p) \div g,
            ((IF q < 0 THEN -1 ELSE 1) * q) \div g>> :
            g \in {Gcd(Abs(p), Abs(q))}})
Rat(n, d) == Pick({RatOf(p, q) : p \in {n}, q \in {d}})

RAdd(a, b) == Rat(a[1] * b[2] + b[1] * a[2], a[2] * b[2])
RSub(a, b) == Rat(a[1] * b[2] - b[1] * a[2], a[2] * b[2])
RMul(a, b) == Rat(a[1] * b[1], a[2] * b[2])
RDiv(a, b) == Rat(a[1] * b[2], a[2] * b[1])
RLt(a, b)  == a[1] * b[2] < b[1] * a[2]
RLe(a, b)  == a[1] * b[2] <= b[1] * a[2]

\* Values: numbers, NaN and None.
Num(n, d) == [k |-> "num", v |-> Rat(n, d)]
NaN       == [k |-> "nan", v |-> <<0, 1>>]
None      == [k |-> "none", v |-> <<0, 1>>]
IsNum(x)  == x.k = "num"
IsNone(x) == x.k = "none"

\* Float operators: NaN is contagious in arithmetic.
FAdd(x, y) ==
    Pick({IF IsNum(a) /\ IsNum(b) THEN [k |-> "num", v |-> RAdd(a.v, b.v)]
          ELSE NaN : a \in {x}, b \in {y}})
FSub(x, y) ==
    Pick({IF IsNum(a) /\ IsNum(b) THEN [k |-> "num", v |-> RSub(a.v, b.v)]
          ELSE NaN : a \in {x}, b \in {y}})
FMul(x, y) ==
    Pick({IF IsNum(a) /\ IsNum(b) THEN [k |-> "num", v |-> RMul(a.v, b.v)]
          ELSE NaN : a \in {x}, b \in {y}})
FDiv(x, y) ==
    Pick({IF IsNum(a) /\ IsNum(b) THEN [k |-> "num", v |-> RDiv(a.v, b.v)]
          ELSE NaN : a \in {x}, b \in {y}})
FNeg(x)    ==
    Pick({IF IsNum(a) THEN [k |-> "num", v |-> <<0 - a.v[1], a.v[2]>>] ELSE a :
            a \in {x}})

\* Float comparisons: every comparison with NaN is false.
FLt(x, y) == \E a \in {x}, b \in {y} : IsNum(a) /\ IsNum(b) /\ RLt(a.v, b.v)
FLe(x, y) == \E a \in {x}, b \in {y} : IsNum(a) /\ IsNum(b) /\ RLe(a.v, b.v)
FGt(x, y) == FLt(y, x)
FGe(x, y) == FLe(y, x)

\* Python's builtin min(a, b) and max(a, b): the first argument is kept
\* unless the second one compares strictly below (above) it.
PyMin(a, b) == Pick({IF FLt(q, p) THEN q ELSE p : p \in {a}, q \in {b}})
PyMax(a, b) == Pick({IF FGt(q, p) THEN q ELSE p : p \in {a}, q \in {b}})

Zero == Num(0, 1)
One  == Num(1, 1)
Half == Num(1, 2)

\* x is a number of the closed interval [0, 1].
InUnit(x) == IsNum(x) /\ RLe(<<0, 1>>, x.v) /\ RLe(x.v, <<1, 1>>)

----------------------------------------------------------------------------
(* Utilities and technical KPIs (pure functions).                          *)

\* WEIGHTS as shipped.
WEIGHTS ==
    [sentiment    |-> Num(20, 100),
     technical    |-> Num(40, 100),
     cycle        |-> Num(25, 100),
     social       |-> Num(5, 100),
     overlay_3bar |-> Num(10, 100)]

\* derive_recommendation with the lower band closed at 0.4.
derive_recommendation_le(risk) ==
    IF FLe(risk, Num(4, 10)) THEN "Comprar"
    ELSE IF FLt(risk, Num(6, 10)) THEN "Mantener"
    ELSE "Vender"

\* derive_recommendation(risk)
derive_recommendation(risk) ==
    IF FLt(risk, Num(4, 10)) THEN "Comprar"
    ELSE IF FLt(risk, Num(6, 10)) THEN "Mantener"
    ELSE "Vender"

\* norm(x, lo, hi)
norm(x, lo, hi) ==
    IF IsNone(x) \/ hi = lo THEN Half
    ELSE LET v == FDiv(FSub(x, lo), FSub(hi, lo))
         IN  PyMax(Zero, PyMin(One, v))

\* The RSI branch with the overbought test strict.
rsi_risk_strict(rsi) ==
    IF IsNone(rsi) THEN Half
    ELSE IF FGt(rsi, Num(70, 1)) THEN Num(8, 10)
    ELSE IF FLe(rsi, Num(30, 1)) THEN Num(2, 10)
    ELSE norm(rsi, Num(30, 1), Num(70, 1))

\* The RSI branch of technical_risk_from_kpis.
rsi_risk(rsi) ==
    IF IsNone(rsi) THEN Half
    ELSE IF FGe(rsi, Num(70, 1)) THEN Num(8, 10)
    ELSE IF FLe(rsi, Num(30, 1)) THEN Num(2, 10)
    ELSE norm(rsi, Num(30, 1), Num(70, 1))

\* The MACD branch.
macd_risk(macd, macds) ==
    IF IsNone(macd) \/ IsNone(macds) THEN Half
    ELSE IF FGt(macd, macds) THEN Num(3, 10) ELSE Num(7, 10)

\* The MA200 branch; above_ma is "None", "True" or "False".
ma_risk(above_ma) ==
    IF above_ma = "None" THEN Half
    ELSE IF above_ma = "True" THEN Num(35, 100) ELSE Num(65, 100)

\* The 24h change branch without the negation.
ch_risk_unnegated(pct24) ==
    IF IsNone(pct24) THEN Half
    ELSE FAdd(FMul(norm(pct24, Num(-10, 1), Num(10, 1)), Num(6, 10)),
              Num(2, 10))

\* The 24h change branch.
ch_risk(pct24) ==
    IF IsNone(pct24) THEN Half
    ELSE FAdd(FMul(norm(FNeg(pct24), Num(-10, 1), Num(10, 1)), Num(6, 10)),
              Num(2, 10))

\* The return expression averaging over three terms.
kpi_mean_three(r, m, a, c) ==
    PyMax(Zero, PyMin(One, FDiv(FAdd(FAdd(FAdd(r, m), a), c), Num(3, 1))))

\* The return expression of technical_risk_from_kpis.
kpi_mean(r, m, a, c) ==
    PyMax(Zero, PyMin(One, FDiv(FAdd(FAdd(FAdd(r, m), a), c), Num(4, 1))))

\* The frame of a technical_risk_from_kpis call at its return; tech is the
\* record of the four entries tech.get reads, None standing for a missing
\* key as well as for a null.
KpiFrame(tech, pct24) ==
    Pick({[called    |-> TRUE,
           tech      |-> tech,
           pct24     |-> pct24,
           rsi_risk  |-> r,
           macd_risk |-> m,
           ma_risk   |-> a,
           ch_risk   |-> c,
           ret       |-> kpi_mean(r, m, a, c)] :
            r \in {rsi_risk(tech.rsi14)},
            m \in {macd_risk(tech.macd, tech.macd_signal)},
            a \in {ma_risk(tech.close_above_ma200)},
            c \in {ch_risk(pct24)}})

technical_risk_from_kpis(tech, pct24) == KpiFrame(tech, pct24).ret

\* The empty dict {} as a tech dict.
EmptyTech ==
    [rsi14 |-> None, macd |-> None, macd_signal |-> None,
     close_above_ma200 |-> "None"]

NoKpi ==
    [called |-> FALSE, tech |-> EmptyTech, pct24 |-> None,
     rsi_risk |-> None, macd_risk |-> None, ma_risk |-> None,
     ch_risk |-> None, ret |-> None]

NoRec == [called |-> FALSE, risk |-> None, ret |-> "unset"]

----------------------------------------------------------------------------
(* The input of compute_component_scores: the dict loaded from data.json.  *)
(* A dict entry is a record with a kind k: "absent" (no such key), "null"  *)
(* (the key holds None) or "dict"/"str" (the key holds a value).  Strings  *)
(* that the code transforms are sequences of characters.                   *)

Absent == [k |-> "absent", v |-> <<0, 1>>]

\* d.get(key, default) for an entry holding a number: the default is used
\* only when the key is absent; a key holding null yields None.
GetOr(entry, default) == IF entry.k = "absent" THEN default ELSE entry

\* str.lower(), character by character.
LowerChar(c) ==
    CASE c = "A" -> "a" [] c = "B" -> "b" [] c = "E" -> "e" [] c = "F" -> "f"
      [] c = "G" -> "g" [] c = "H" -> "h" [] c = "I" -> "i" [] c = "L" -> "l"
      [] c = "N" -> "n" [] c = "R" -> "r" [] c = "S" -> "s" [] c = "T" -> "t"
      [] c = "U" -> "u" [] c = "D" -> "d" [] c = "M" -> "m" [] c = "X" -> "x"
      [] OTHER -> c

\* str.lower() leaving every character as it is.
Lower_identity(s) == [i \in DOMAIN s |-> s[i]]

Lower(s) == [i \in DOMAIN s |-> LowerChar(s[i])]

S_bearish == <<"b", "e", "a", "r", "i", "s", "h">>
S_neutral == <<"n", "e", "u", "t", "r", "a", "l">>
S_bullish == <<"b", "u", "l", "l", "i", "s", "h">>

\* sent_map.get(sentiment_cls, 0.50)
sent_map_get(cls) ==
    IF cls = S_bearish THEN Num(65, 100)
    ELSE IF cls = S_neutral THEN Num(50, 100)
    ELSE IF cls = S_bullish THEN Num(35, 100)
    ELSE Num(50, 100)

\* (data.get("sentiment") or {}).get("classification", "neutral"):
\* a string entry, or the entry of kind "null" when the key holds None.
classification_of(sentiment) ==
    IF sentiment.k # "dict" \/ sentiment.classification.k = "absent"
    THEN [k |-> "str", s |-> S_neutral]
    ELSE sentiment.classification

\* (data.get("cycle") or {}).get("average_cycle", 0.5)
average_cycle_of(cycle) ==
    IF cycle.k # "dict" THEN Half ELSE GetOr(cycle.average_cycle, Half)

\* cycle_risk with the operands swapped.
CycleRisk_swapped(avg_cycle) == FSub(avg_cycle, One)

\* cycle_risk = 1 - avg_cycle
CycleRisk(avg_cycle) == FSub(One, avg_cycle)

\* sym.replace("USDT", "") on the tracked symbols.
BaseSymbol(sym) ==
    CASE sym = "BTCUSDT" -> "BTC"
      [] sym = "ETHUSDT" -> "ETH"
      [] OTHER -> sym

Syms     == {"BTCUSDT", "ETHUSDT"}
BaseSyms == {BaseSymbol(s) : s \in Syms}

\* (three_bar.get(sym) or {}).get("signal", "none"); "(None)" stands for a
\* signal key holding null, "(absent)" for an entry without the key.
signal_of(entry) ==
    IF entry.k # "dict" \/ entry.signal = "(absent)" THEN "none"
    ELSE entry.signal

\* The weighted base score.
BaseScore(w, s_risk, t_risk, c_risk, so_risk) ==
    FAdd(FAdd(FAdd(FMul(w.sentiment, s_risk), FMul(w.technical, t_risk)),
              FMul(w.cycle, c_risk)),
         FMul(w.social, so_risk))

\* The overlay with the two signals exchanged.
Overlay_unclamped(w, base, sig) ==
    IF sig = "bearish" THEN FAdd(base, FMul(w.overlay_3bar, Half))
    ELSE IF sig = "bullish" THEN FSub(base, FMul(w.overlay_3bar, Half))
    ELSE base

Overlay_exchanged(w, base, sig) ==
    IF sig = "bullish" THEN PyMin(One, FAdd(base, FMul(w.overlay_3bar, Half)))
    ELSE IF sig = "bearish"
    THEN PyMax(Zero, FSub(base, FMul(w.overlay_3bar, Half)))
    ELSE base

\* The 3-bar overlay.
Overlay(w, base, sig) ==
    IF sig = "bearish" THEN PyMin(One, FAdd(base, FMul(w.overlay_3bar, Half)))
    ELSE IF sig = "bullish"
    THEN PyMax(Zero, FSub(base, FMul(w.overlay_3bar, Half)))
    ELSE base

RECURSIVE SumValues(_, _)
\* sum(d.values()) for the dict d restricted to the keys S.
SumValues(d, S) ==
    IF S = {} THEN Zero
    ELSE Pick({FAdd(d[s], SumValues(d, T \ {s})) :
                 <<T, s>> \in {<<T, s>> \in {S} \X S : s = CHOOSE x \in T : TRUE}})

MaxInt(a, b) == IF a >= b THEN a ELSE b

\* sum(coin_scores.values()) / max(1, len(coin_scores))
PortfolioRisk(scores) ==
    FDiv(SumValues(scores, DOMAIN scores),
         Num(MaxInt(1, Cardinality(DOMAIN scores)), 1))

\* data.json has not been written.
NoFile == [key \in {} |-> Absent]

EmptyScores == [s \in {} |-> Zero]
NoFrame ==
    [sym |-> "(none)", pct24 |-> None, tech_risk |-> None,
     social_risk |-> None, base_sum |-> None, sig |-> "(absent)",
     base |-> None]

----------------------------------------------------------------------------
(* compute_component_scores, step by step.                                 *)

\* Lines 84-93: the market context.  The outcome is the exception raised
\* ("none" if none) and the locals assigned before it.
ResolveOutcome(d) ==
    LET cls == classification_of(d.sentiment)
        avg == average_cycle_of(d.cycle)
    IN  IF cls.k = "null"
        THEN \* None.lower()
             [err |-> "AttributeError", sentiment_risk |-> None,
              cycle_risk |-> None]
        ELSE IF IsNone(avg)
        THEN \* 1 - None
             [err |-> "TypeError",
              sentiment_risk |-> sent_map_get(Lower(cls.s)),
              cycle_risk |-> None]
        ELSE [err |-> "none",
              sentiment_risk |-> sent_map_get(Lower(cls.s)),
              cycle_risk |-> CycleRisk(avg)]

\* cmc.get(sym.replace("USDT", ""), {}) with cmc = data.get("cmc", {}).
cmc_entry(d, sym) ==
    IF d.cmc.k = "absent" THEN [k |-> "absent", change_24h |-> None]
    ELSE d.cmc.of[BaseSymbol(sym)]

\* technical.get(sym, {}) with technical = data.get("technical", {}).
tech_entry(d, sym) ==
    IF d.technical.k = "absent" THEN [k |-> "absent", d |-> EmptyTech]
    ELSE d.technical.of[sym]

\* three_bar.get(sym) with three_bar = data.get("three_bar", {}).
bar_entry(d, sym) ==
    IF d.three_bar.k = "absent" THEN [k |-> "absent", signal |-> "(absent)"]
    ELSE d.three_bar.of[sym]

\* social_risk = 0.5, the placeholder of line 103.
SocialRisk == Half

\* Lines 105-119, the technical frame k and the weighted sum b0 being known:
\* the exception raised ("none" if none) and the frames left behind.
ScoreWith(d, w, sym, pct24, k, b0) ==
    IF d.three_bar.k = "null"
    THEN \* None.get(sym)
         [err |-> "AttributeError",
          frame |-> [sym |-> sym, pct24 |-> pct24, tech_risk |-> k.ret,
                     social_risk |-> SocialRisk, base_sum |-> b0,
                     sig |-> "(absent)", base |-> b0],
          kpi |-> k]
    ELSE [err |-> "none",
          frame |-> [sym |-> sym, pct24 |-> pct24, tech_risk |-> k.ret,
                     social_risk |-> SocialRisk, base_sum |-> b0,
                     sig |-> signal_of(bar_entry(d, sym)),
                     base |-> Overlay(w, b0, signal_of(bar_entry(d, sym)))],
          kpi |-> k]

\* Lines 102-119, the technical frame k being known.
ScoreFrom(d, w, s_risk, c_risk, sym, pct24, k) ==
    Pick({ScoreWith(d, w, sym, pct24, k, b0) :
            b0 \in {BaseScore(w, s_risk, k.ret, c_risk, SocialRisk)}})

\* Lines 96-119: one iteration of the loop over coins.
ScoreOutcome(d, w, s_risk, c_risk, sym) ==
    LET c     == cmc_entry(d, sym)
        pct24 == IF c.k = "dict" THEN c.change_24h ELSE None
        t     == tech_entry(d, sym)
        tech  == IF t.k = "dict" THEN t.d ELSE EmptyTech
    IN  IF d.cmc.k = "null" \/ c.k = "null"
           \/ d.technical.k = "null" \/ t.k = "null"
        THEN \* None.get(...)
             [err |-> "AttributeError", frame |-> NoFrame, kpi |-> NoKpi]
        ELSE Pick({ScoreFrom(d, w, s_risk, c_risk, sym, pct24, k) :
                     k \in {KpiFrame(tech, pct24)}})

\* Resolve with coin_scores kept from the call before, as a dict that
\* outlives the call would be.
Resolve_keeping_scores ==
    /\ pc = "start"
    /\ \E o \in {ResolveOutcome(data)} :
           /\ sentiment_risk' = o.sentiment_risk
           /\ cycle_risk' = o.cycle_risk
           /\ err' = o.err
           /\ pc' = IF o.err = "none" THEN "loop" ELSE "raised"
    /\ idx' = 1
    /\ UNCHANGED <<weights, data, frame, kpi, coin_scores, portfolio_risk,
                   recommendations, rec, calls,
                   data_json>>

Resolve ==
    /\ pc = "start"
    /\ \E o \in {ResolveOutcome(data)} :
           /\ sentiment_risk' = o.sentiment_risk
           /\ cycle_risk' = o.cycle_risk
           /\ err' = o.err
           /\ pc' = IF o.err = "none" THEN "loop" ELSE "raised"
    /\ idx' = 1
    /\ coin_scores' = EmptyScores
    /\ UNCHANGED <<weights, data, frame, kpi, portfolio_risk,
                   recommendations, rec, calls,
                   data_json>>

ScoreCoin ==
    /\ pc = "loop"
    /\ idx <= Len(data.coins)
    /\ \E o \in {ScoreOutcome(data, weights, sentiment_risk, cycle_risk,
                              data.coins[idx])} :
           /\ frame' = o.frame
           /\ kpi' = o.kpi
           /\ err' = o.err
           /\ IF o.err = "none"
              THEN /\ coin_scores' =
                        [s \in DOMAIN coin_scores \cup {o.frame.sym} |->
                            IF s = o.frame.sym THEN o.frame.base
                            ELSE coin_scores[s]]
                   /\ idx' = idx + 1
                   /\ pc' = "loop"
              ELSE /\ UNCHANGED <<coin_scores, idx>>
                   /\ pc' = "raised"
    /\ UNCHANGED <<weights, data, sentiment_risk, cycle_risk, portfolio_risk,
                   recommendations, rec, calls,
                   data_json>>

\* Lines 121-122.
Aggregate ==
    /\ pc = "loop"
    /\ idx > Len(data.coins)
    /\ portfolio_risk' = PortfolioRisk(coin_scores)
    /\ pc' = "returned"
    /\ calls' = Append(calls, [data |-> data,
                               portfolio_risk |-> PortfolioRisk(coin_scores),
                               coin_scores |-> coin_scores])
    /\ UNCHANGED <<weights, data, err, sentiment_risk, cycle_risk, idx, frame,
                   kpi, coin_scores, recommendations, rec,
                   data_json>>

\* main, lines 318-323: the analysis record built from the returned tuple.
Report ==
    /\ pc = "returned"
    /\ recommendations' =
           [s \in DOMAIN coin_scores |-> derive_recommendation(coin_scores[s])]
    /\ pc' = "done"
    /\ UNCHANGED <<weights, data, err, sentiment_risk, cycle_risk, idx, frame,
                   kpi, coin_scores, portfolio_risk, rec, calls,
                   data_json>>

NoRecommendations == [s \in {} |-> "unset"]

\* The locals of a call that has not started.
Locals0 ==
    /\ err = "none"
    /\ sentiment_risk = None
    /\ cycle_risk = None
    /\ idx = 1
    /\ frame = NoFrame
    /\ coin_scores = EmptyScores
    /\ portfolio_risk = None
    /\ recommendations = NoRecommendations

\* The state of a call about to start on the input d.
Fresh(d) ==
    /\ data = d
    /\ calls = <<>>
    /\ data_json = NoFile
    /\ pc = "start"
    /\ Locals0
    /\ kpi = NoKpi
    /\ rec = NoRec

----------------------------------------------------------------------------
(* Inputs.                                                                 *)

MaxCoins   == 2   \* longest coins list
CycleSteps == 5   \* average_cycle ranges over k / CycleSteps

Str(s)      == [k |-> "str", s |-> s]
NoStr(kind) == [k |-> kind, s |-> <<>>]

SentAbsent  == [k |-> "absent", classification |-> NoStr("absent")]
SentNull    == [k |-> "null", classification |-> NoStr("absent")]
SentDict(c) == [k |-> "dict", classification |-> c]

S_Bullish_mixed == <<"B", "u", "l", "l", "i", "s", "h">>
S_BEARISH_upper == <<"B", "E", "A", "R", "I", "S", "H">>
S_Extreme_Fear  == <<"E", "x", "t", "r", "e", "m", "e", " ", "F", "e", "a", "r">>

SentNeutral == SentDict(Str(S_neutral))

\* The sentiment sections on which the call completes.
SentimentStrings ==
    {SentDict(Str(s)) :
        s \in {S_bearish, S_neutral, S_bullish, S_Bullish_mixed,
               S_BEARISH_upper, S_Extreme_Fear}}

SentimentCases ==
    SentimentStrings
      \cup {SentAbsent, SentNull, SentDict(NoStr("absent")),
            SentDict(NoStr("null"))}

CycleAbsent  == [k |-> "absent", average_cycle |-> Absent]
CycleDict(a) == [k |-> "dict", average_cycle |-> a]

\* average_cycle in [0, 1].
CycleInRange ==
    {CycleDict(Num(k, CycleSteps)) : k \in 0..CycleSteps}
      \cup {CycleDict(Num(2, 10))}

\* average_cycle outside [0, 1].
CycleOutOfRange ==
    {CycleDict(Num(-1, CycleSteps)), CycleDict(Num(CycleSteps + 1, CycleSteps))}

CycleCases ==
    CycleInRange \cup CycleOutOfRange
      \cup {CycleAbsent, CycleDict(Absent), CycleDict(None)}

Tech(rsi, macd, macds, above) ==
    [rsi14 |-> rsi, macd |-> macd, macd_signal |-> macds,
     close_above_ma200 |-> above]

TechDict(t)   == [k |-> "dict", d |-> t]
TechMissing(kind) == [k |-> kind, d |-> EmptyTech]
CmcDict(p)    == [k |-> "dict", change_24h |-> p]
CmcMissing(kind)  == [k |-> kind, change_24h |-> None]
BarDict(sig)  == [k |-> "dict", signal |-> sig]
BarMissing(kind)  == [k |-> kind, signal |-> "(absent)"]

Row(t, c, b) == [technical |-> t, cmc |-> c, three_bar |-> b]

AbsentRow == Row(TechMissing("absent"), CmcMissing("absent"), BarMissing("absent"))

\* rsi14=75, macd=1, macd_signal=0.5, close_above_ma200=true,
\* change_24h=-12, bearish pattern.
ScenarioRow ==
    Row(TechDict(Tech(Num(75, 1), Num(1, 1), Num(1, 2), "True")),
        CmcDict(Num(-12, 1)), BarDict("bearish"))

Rows ==
    {AbsentRow,
     ScenarioRow,
     Row(TechDict(Tech(Num(20, 1), Num(1, 1), Num(0, 1), "True")),
         CmcDict(Num(15, 1)), BarDict("bullish")),
     Row(TechDict(Tech(Num(80, 1), Num(-1, 1), Num(0, 1), "False")),
         CmcDict(Num(-15, 1)), BarDict("none")),
     Row(TechDict(Tech(Num(50, 1), None, None, "None")),
         CmcDict(None), BarDict("(None)")),
     Row(TechDict(EmptyTech), CmcDict(None), BarMissing("null")),
     Row(TechMissing("null"), CmcDict(Num(0, 1)), BarDict("none")),
     Row(TechDict(EmptyTech), CmcMissing("null"), BarDict("none"))}

\* The kinds of the three per-asset sections of data.
AllDict == [three_bar |-> "dict", cmc |-> "dict", technical |-> "dict"]
Shapes ==
    {[three_bar |-> "absent", cmc |-> "absent", technical |-> "absent"],
     [three_bar |-> "null", cmc |-> "dict", technical |-> "dict"],
     [three_bar |-> "dict", cmc |-> "null", technical |-> "dict"],
     [three_bar |-> "dict", cmc |-> "dict", technical |-> "null"]}

\* The dict with coins list, market context, per-symbol rows and shape.
MkData(coins, sentiment, cycle, rows, shape) ==
    [coins     |-> coins,
     sentiment |-> sentiment,
     cycle     |-> cycle,
     three_bar |-> [k |-> shape.three_bar,
                    of |-> [s \in Syms |-> rows[s].three_bar]],
     cmc       |-> [k |-> shape.cmc,
                    of |-> [b \in BaseSyms |->
                              rows[CHOOSE s \in Syms : BaseSymbol(s) = b].cmc]],
     technical |-> [k |-> shape.technical,
                    of |-> [s \in Syms |-> rows[s].technical]]]

CoinLists == UNION {[1..n -> Syms] : n \in 0..MaxCoins}

Listed(coins) == {coins[i] : i \in DOMAIN coins}

\* Rows of the symbols that are not listed in coins are never read: they
\* are left absent.
RowsFor(coins) ==
    {r \in [Syms -> Rows] : \A s \in Syms \ Listed(coins) : r[s] = AbsentRow}

CycleHalf == CycleDict(Num(1, 2))

Contexts ==
    {[sentiment |-> s, cycle |-> CycleHalf] : s \in SentimentCases}
      \cup {[sentiment |-> SentNeutral, cycle |-> c] : c \in CycleCases}
      \cup {[sentiment |-> SentDict(Str(S_bearish)), cycle |-> CycleDict(Zero)],
            [sentiment |-> SentDict(Str(S_bullish)), cycle |-> CycleDict(One)]}

Inputs ==
    {MkData(c, x.sentiment, x.cycle, r, AllDict) :
        <<c, x, r>> \in {<<c, x, r>> \in CoinLists \X Contexts \X [Syms -> Rows] :
                            r \in RowsFor(c)}}
      \cup {MkData(c, SentNeutral, CycleHalf, [s \in Syms |-> AbsentRow], sh) :
              c \in CoinLists, sh \in Shapes}

\* Weight tables: the shipped one, one whose four base weights sum to 1,
\* one with a negative weight, one whose weights sum to more than 1.
W_unit ==
    [sentiment |-> Num(25, 100), technical |-> Num(40, 100),
     cycle |-> Num(25, 100), social |-> Num(10, 100),
     overlay_3bar |-> Num(10, 100)]
W_negative ==
    [sentiment |-> Num(-20, 100), technical |-> Num(80, 100),
     cycle |-> Num(25, 100), social |-> Num(5, 100),
     overlay_3bar |-> Num(10, 100)]
W_excess ==
    [sentiment |-> Num(50, 100), technical |-> Num(50, 100),
     cycle |-> Num(25, 100), social |-> Num(25, 100),
     overlay_3bar |-> Num(10, 100)]

WeightConfigs == {WEIGHTS, W_unit, W_negative, W_excess}

----------------------------------------------------------------------------
(* The engine: main loads an input, calls compute_component_scores on it  *)
(* and derives the recommendations, under the weight table of the run.     *)

Init ==
    /\ weights \in WeightConfigs
    /\ \E d \in Inputs : Fresh(d)

Next == Resolve \/ ScoreCoin \/ Aggregate \/ Report

Spec == Init /\ [][Next]_vars

----------------------------------------------------------------------------
(* technical_risk_from_kpis on its own: one call on any tech dict and any  *)
(* 24h change of a grid.                                                   *)

GridDen == 2   \* 24h changes range over multiples of 1 / GridDen
RsiPad  == 5   \* rsi14 ranges over the integers of -RsiPad .. 100 + RsiPad
PctPad  == 3   \* 24h changes range over -(10 + PctPad) .. 10 + PctPad

RsiGrid == {Num(k, 1) : k \in (0 - RsiPad)..(100 + RsiPad)}
PctGrid ==
    {Num(k, GridDen) : k \in (0 - (10 + PctPad) * GridDen)..((10 + PctPad) * GridDen)}

TechInputs ==
    {Tech(r, m, ms, a) :
        r \in RsiGrid \cup {None, NaN},
        m \in {None, Num(1, 1)},
        ms \in {None, Num(0, 1), Num(2, 1)},
        a \in {"None", "True", "False"}}

PctInputs == PctGrid \cup {None, NaN}

EmptyData ==
    MkData(<<>>, SentAbsent, CycleAbsent, [s \in Syms |-> AbsentRow],
           [three_bar |-> "absent", cmc |-> "absent", technical |-> "absent"])

\* No call of compute_component_scores is under way.
Idle ==
    /\ weights = WEIGHTS
    /\ data = EmptyData
    /\ pc = "idle"
    /\ calls = <<>>
    /\ data_json = NoFile
    /\ Locals0

InitTech ==
    /\ Idle
    /\ rec = NoRec
    /\ kpi \in {[NoKpi EXCEPT !.tech = t, !.pct24 = p] :
                  t \in TechInputs, p \in PctInputs}

ApplyTech ==
    /\ pc = "idle"
    /\ ~kpi.called
    /\ kpi' = KpiFrame(kpi.tech, kpi.pct24)
    /\ UNCHANGED <<weights, data, pc, err, sentiment_risk, cycle_risk, idx,
                   frame, coin_scores, portfolio_risk, recommendations, rec, calls,
                   data_json>>

SpecTech == InitTech /\ [][ApplyTech]_vars

----------------------------------------------------------------------------
(* derive_recommendation on its own: one call on any risk of a grid.       *)

RecGrid == 200   \* risks range over multiples of 1 / RecGrid
RecPad  == 20    \* from -RecPad / RecGrid to 1 + RecPad / RecGrid

RiskInputs ==
    {Num(k, RecGrid) : k \in (0 - RecPad)..(RecGrid + RecPad)}
      \cup {Num(4, 10), Num(6, 10), Num(39999, 100000), Num(59999, 100000),
            Num(40001, 100000), Num(60001, 100000), NaN}

InitRec ==
    /\ Idle
    /\ kpi = NoKpi
    /\ rec \in {[NoRec EXCEPT !.risk = r] : r \in RiskInputs}

ApplyRec ==
    /\ pc = "idle"
    /\ ~rec.called
    /\ rec' = [called |-> TRUE, risk |-> rec.risk,
               ret |-> derive_recommendation(rec.risk)]
    /\ UNCHANGED <<weights, data, pc, err, sentiment_risk, cycle_risk, idx,
                   frame, kpi, coin_scores, portfolio_risk, recommendations, calls,
                   data_json>>

SpecRec == InitRec /\ [][ApplyRec]_vars

----------------------------------------------------------------------------
(* Fuzzing one asset: compute_component_scores under the shipped weights   *)
(* on a single coin whose indicators are each missing, NaN, in their       *)
(* domain or outside it.                                                   *)

FuzzRsi == {None, NaN, Num(-5, 1), Num(50, 1), Num(120, 1)}
FuzzPct == {None, NaN, Num(-50, 1), Num(3, 1), Num(50, 1)}
FuzzMacd ==
    {<<None, None>>, <<Num(1, 1), None>>, <<NaN, Num(0, 1)>>,
     <<Num(1, 1), Num(0, 1)>>, <<Num(-9, 1), Num(0, 1)>>,
     <<Num(1000, 1), Num(1000, 1)>>}
FuzzSignal == {"(absent)", "bearish", "bullish", "none"}

FuzzRows ==
    {Row(TechDict(Tech(r, m[1], m[2], a)), CmcDict(p), BarDict(g)) :
        r \in FuzzRsi, m \in FuzzMacd, a \in {"None", "True", "False"},
        p \in FuzzPct, g \in FuzzSignal}

FuzzSentiment ==
    {SentDict(Str(S_bearish)), SentDict(Str(S_Bullish_mixed)),
     SentDict(Str(S_Extreme_Fear)), SentAbsent}

FuzzCycle ==
    {CycleDict(Zero), CycleDict(One), CycleDict(Num(1, 3)), CycleAbsent}
      \cup CycleOutOfRange

FuzzInputs ==
    {MkData(<<"BTCUSDT">>, x, c,
            [s \in Syms |-> IF s = "BTCUSDT" THEN r ELSE AbsentRow], AllDict) :
        x \in FuzzSentiment, c \in FuzzCycle, r \in FuzzRows}

InitFuzz ==
    /\ weights = WEIGHTS
    /\ \E d \in FuzzInputs : Fresh(d)

NextFuzz == Resolve \/ ScoreCoin \/ Aggregate

SpecFuzz == InitFuzz /\ [][NextFuzz]_vars

----------------------------------------------------------------------------
(* Properties.                                                             *)

\* The rational p/q (q > 0) as a pair, for stating expected values.
Q(p, q) == Rat(p, q)

\* C1 (SpecFuzz): for every scored asset with average_cycle in [0, 1],
\* whatever the sentiment classification, the pattern signal and the
\* presence, absence or range of rsi14, macd, macd_signal,
\* close_above_ma200 and change_24h, the technical risk, the sentiment
\* risk, the cycle risk, the social risk and the final risk of the asset
\* all lie in [0, 1].
C1_RisksInUnitInterval ==
    (frame.sym # "(none)" /\ InUnit(average_cycle_of(data.cycle)))
        => /\ InUnit(frame.tech_risk)
           /\ InUnit(kpi.ret)
           /\ InUnit(sentiment_risk)
           /\ InUnit(cycle_risk)
           /\ InUnit(frame.social_risk)
           /\ InUnit(frame.base)
           /\ \A s \in DOMAIN coin_scores : InUnit(coin_scores[s])

\* An asset with rsi14 out of its domain, macd missing, a NaN 24h change and
\* a bearish pattern has been scored at the cycle peak.
C1_Witness ==
    /\ frame.sym = "BTCUSDT"
    /\ kpi.tech.rsi14 = Num(120, 1)
    /\ IsNone(kpi.tech.macd)
    /\ kpi.pct24 = NaN
    /\ frame.sig = "bearish"
    /\ cycle_risk = One
    /\ coin_scores["BTCUSDT"] = frame.base
    /\ InUnit(frame.base)

C8_MeanOfFourContributions ==
    kpi.called
        => /\ IsNum(kpi.ret) /\ InUnit(kpi.ret)
           /\ RMul(kpi.ret.v, <<4, 1>>)
                = RAdd(RAdd(kpi.rsi_risk.v, kpi.macd_risk.v),
                       RAdd(kpi.ma_risk.v, kpi.ch_risk.v))
           /\ IsNone(kpi.tech.rsi14) => kpi.rsi_risk = Half
           /\ (IsNone(kpi.tech.macd) \/ IsNone(kpi.tech.macd_signal))
                => kpi.macd_risk = Half
           /\ kpi.tech.close_above_ma200 = "None" => kpi.ma_risk = Half
           /\ IsNone(kpi.pct24) => kpi.ch_risk = Half
           /\ (kpi.tech = EmptyTech /\ IsNone(kpi.pct24)) => kpi.ret = Half

\* The function has returned on a tech dict holding only rsi14 = 70 and a
\* missing 24h change: three contributions are neutral, the mean is 0.575.
C8_Witness ==
    /\ kpi.called
    /\ kpi.tech = Tech(Num(70, 1), None, None, "None")
    /\ IsNone(kpi.pct24)
    /\ kpi.macd_risk = Half /\ kpi.ma_risk = Half /\ kpi.ch_risk = Half
    /\ kpi.ret = Num(575, 1000)

\* C9 (SpecTech): the RSI contribution is 0.8 for rsi14 >= 70, 0.2 for
\* rsi14 <= 30 and (rsi14 - 30) / 40 strictly in between.
C9_RsiContribution ==
    (kpi.called /\ IsNum(kpi.tech.rsi14))
        => LET n == kpi.tech.rsi14.v[1]
               d == kpi.tech.rsi14.v[2]
           IN  /\ n >= 70 * d => kpi.rsi_risk.v = Q(8, 10)
               /\ n <= 30 * d => kpi.rsi_risk.v = Q(2, 10)
               /\ (30 * d < n /\ n < 70 * d)
                    => kpi.rsi_risk.v = Q(n - 30 * d, 40 * d)
               /\ IsNum(kpi.rsi_risk)

\* The function has returned on rsi14 = 70 with the contribution 0.8.
C9_Witness ==
    /\ kpi.called
    /\ kpi.tech.rsi14 = Num(70, 1)
    /\ kpi.rsi_risk = Num(8, 10)

\* clamp(x, 0, 1) on rationals.
Clamp01(x) == IF RLt(x, <<0, 1>>) THEN <<0, 1>> ELSE IF RLt(<<1, 1>>, x) THEN <<1, 1>> ELSE x

\* C10 (SpecTech): the 24h change contribution is
\* clamp((-pct + 10) / 20, 0, 1) * 0.6 + 0.2: 0.8 for pct <= -10, 0.2 for
\* pct >= 10, 0.5 at 0, within [0.2, 0.8], and not larger at the next
\* larger pct of the grid.
C10_ChangeContribution ==
    (kpi.called /\ IsNum(kpi.pct24))
        => LET n == kpi.pct24.v[1]
               d == kpi.pct24.v[2]
               c == kpi.ch_risk.v
           IN  /\ IsNum(kpi.ch_risk)
               /\ c = RAdd(RMul(Clamp01(Q(10 * d - n, 20 * d)), Q(6, 10)), Q(2, 10))
               /\ n <= (0 - 10) * d => c = Q(8, 10)
               /\ n >= 10 * d => c = Q(2, 10)
               /\ n = 0 => c = Q(1, 2)
               /\ RLe(Q(2, 10), c) /\ RLe(c, Q(8, 10))
               /\ RLe(ch_risk(Num(n * GridDen + d, d * GridDen)).v, c)

\* The function has returned on a 24h change of +5% with the contribution
\* 0.35, strictly inside the band.
C10_Witness ==
    /\ kpi.called
    /\ kpi.pct24 = Num(5, 1)
    /\ kpi.ch_risk = Num(35, 100)

\* The kinds of the three per-asset sections of the input d.
ShapeOf(d) ==
    [three_bar |-> d.three_bar.k, cmc |-> d.cmc.k, technical |-> d.technical.k]

\* The call has returned its tuple.
Returned == pc \in {"returned", "done"}

\* The returned portfolio risk times the number of scored assets is the
\* sum of their scores.
PortfolioIsMean ==
    (Returned /\ DOMAIN coin_scores # {})
        => /\ IsNum(portfolio_risk)
           /\ RMul(portfolio_risk.v, <<Cardinality(DOMAIN coin_scores), 1>>)
                = SumValues(coin_scores, DOMAIN coin_scores).v

\* C3 (Spec): the returned portfolio risk is the arithmetic mean of the
\* per-asset scores, and exactly 0.5 when the asset list is empty.
C3_PortfolioMeanOrNeutral ==
    /\ PortfolioIsMean
    /\ (Returned /\ DOMAIN coin_scores = {}) => portfolio_risk = Half

\* Some weight is negative, or neither the four base weights nor the five
\* weights together sum to 1.
Malformed(w) ==
    \/ \E x \in {w.sentiment, w.technical, w.cycle, w.social, w.overlay_3bar} :
          RLt(x.v, <<0, 1>>)
    \/ /\ RAdd(RAdd(w.sentiment.v, w.technical.v), RAdd(w.cycle.v, w.social.v))
            # <<1, 1>>
       /\ RAdd(RAdd(RAdd(w.sentiment.v, w.technical.v),
                    RAdd(w.cycle.v, w.social.v)), w.overlay_3bar.v)
            # <<1, 1>>

\* C4 (Spec): under a malformed weight table no asset is scored and no
\* risk is produced: the run ends in a configuration error.
C4_MalformedWeightsRefused ==
    Malformed(weights)
        => /\ frame = NoFrame
           /\ DOMAIN coin_scores = {}
           /\ IsNone(portfolio_risk)
           /\ pc \notin {"returned", "done"}

\* The weighted sum of the four factors of the latest scored asset, under
\* the table w.
WeightedSum(w) ==
    RAdd(RAdd(RMul(w.sentiment.v, sentiment_risk.v),
              RMul(w.technical.v, frame.tech_risk.v)),
         RAdd(RMul(w.cycle.v, cycle_risk.v),
              RMul(w.social.v, frame.social_risk.v)))

\* C5 (Spec): under the shipped table the base score is the weighted sum of
\* the four factors, the four base weights sum to 1, and an asset whose
\* four factors all equal r has base score r.
C5_BaseWeightsSumToOne ==
    (weights = WEIGHTS /\ frame.sym # "(none)")
        => /\ frame.base_sum.v = WeightedSum(weights)
           /\ RAdd(RAdd(weights.sentiment.v, weights.technical.v),
                   RAdd(weights.cycle.v, weights.social.v)) = <<1, 1>>
           /\ (/\ frame.tech_risk = sentiment_risk
               /\ cycle_risk = sentiment_risk
               /\ frame.social_risk = sentiment_risk)
                => frame.base_sum = sentiment_risk

\* The end-to-end scenario: shipped weights, neutral sentiment, average
\* cycle 0.2, and the scenario's indicators for the latest scored asset.
Scenario ==
    /\ weights = WEIGHTS
    /\ ShapeOf(data) = AllDict
    /\ data.sentiment = SentNeutral
    /\ data.cycle = CycleDict(Num(2, 10))
    /\ frame.sym # "(none)"
    /\ data.technical.of[frame.sym] = ScenarioRow.technical
    /\ data.cmc.of[BaseSymbol(frame.sym)] = ScenarioRow.cmc
    /\ data.three_bar.of[frame.sym] = ScenarioRow.three_bar

\* x is within 0.001 of the rational q.
Near(x, q) ==
    /\ IsNum(x)
    /\ RLe(RSub(x.v, q), <<1, 1000>>)
    /\ RLe(RSub(q, x.v), <<1, 1000>>)

\* C6 as stated (Spec): in the scenario the technical risk is 0.5625, the
\* cycle risk 0.8, the base score about 0.5625, the final risk about
\* 0.6125, and the recommendation Sell.
C6_ScenarioAsStated ==
    Scenario
        => /\ frame.tech_risk = Num(5625, 10000)
           /\ cycle_risk = Num(8, 10)
           /\ Near(frame.base_sum, Q(5625, 10000))
           /\ Near(frame.base, Q(6125, 10000))
           /\ pc = "done" => recommendations[frame.sym] = "Vender"

\* C6 amended (Spec): in the scenario the technical risk is 0.5625, the
\* cycle risk 0.8, the base score 0.55, the final risk 0.60 after the
\* +0.05 overlay, and the recommendation Sell.
C6_ScenarioAmended ==
    Scenario
        => /\ frame.tech_risk = Num(5625, 10000)
           /\ cycle_risk = Num(8, 10)
           /\ frame.base_sum = Num(55, 100)
           /\ frame.base = Num(60, 100)
           /\ coin_scores[frame.sym] = Num(60, 100)
           /\ pc = "done" => recommendations[frame.sym] = "Vender"

\* The scenario has been scored and main has derived Sell for it.
C6_Witness ==
    /\ Scenario
    /\ pc = "done"
    /\ frame.sig = "bearish"
    /\ recommendations[frame.sym] = "Vender"

\* C7 (Spec): with null or absent sentiment.classification,
\* cycle.average_cycle, technical, cmc and three_bar entries the call
\* raises nothing, and a null or absent three_bar entry reads as no pattern.
C7_NullEntriesLegal ==
    ShapeOf(data) = AllDict
        => /\ err = "none"
           /\ pc # "raised"
           /\ (frame.sym # "(none)" /\ data.three_bar.of[frame.sym].k # "dict")
                => frame.sig = "none"

----------------------------------------------------------------------------
(* The 3-bar overlay on its own: lines 112-119 applied to any base score   *)
(* of a grid over [0, 1] under the shipped weights.                        *)

OvGrid == 100   \* base scores range over k / OvGrid
OvPad == 10     \* grid points on either side of the interval [0, 1]

\* The three_bar entries of an asset and the signals they read as.
BarEntries ==
    {BarMissing("absent"), BarMissing("null"), BarDict("(absent)"),
     BarDict("(None)"), BarDict("none"), BarDict("bearish"),
     BarDict("bullish")}

InitOverlay ==
    /\ weights = WEIGHTS
    /\ data = EmptyData
    /\ pc = "idle"
    /\ calls = <<>>
    /\ data_json = NoFile
    /\ err = "none"
    /\ sentiment_risk = None
    /\ cycle_risk = None
    /\ idx = 1
    /\ coin_scores = EmptyScores
    /\ portfolio_risk = None
    /\ recommendations = NoRecommendations
    /\ kpi = NoKpi
    /\ rec = NoRec
    /\ frame \in {[NoFrame EXCEPT !.base_sum = Num(k, OvGrid),
                                  !.sig = signal_of(e)] :
                    k \in (0 - OvPad)..(OvGrid + OvPad), e \in BarEntries}

ApplyOverlay ==
    /\ pc = "idle"
    /\ frame.sym = "(none)"
    /\ frame' = [frame EXCEPT !.sym = "BTCUSDT",
                              !.base = Overlay(weights, frame.base_sum, frame.sig)]
    /\ coin_scores' = [s \in {"BTCUSDT"} |->
                          Overlay(weights, frame.base_sum, frame.sig)]
    /\ UNCHANGED <<weights, data, pc, err, sentiment_risk, cycle_risk, idx,
                   kpi, portfolio_risk, recommendations, rec, calls,
                   data_json>>

SpecOverlay == InitOverlay /\ [][ApplyOverlay]_vars

\* min and max of two rationals.
RMin(a, b) == IF RLt(b, a) THEN b ELSE a
RMax(a, b) == IF RLt(a, b) THEN b ELSE a

\* The overlay has been applied to the base score of the frame.
OverlayApplied ==
    frame.sym # "(none)" /\ weights.overlay_3bar = Num(10, 100)

\* The stated outcome of the overlay for the base score of the frame.
OverlayLaw ==
    LET b == frame.base_sum.v
        r == frame.base.v
        h == RMul(<<1, 2>>, weights.overlay_3bar.v)
    IN  /\ IsNum(frame.base)
        /\ frame.sig = "bearish" => r = RMin(<<1, 1>>, RAdd(b, <<5, 100>>))
        /\ frame.sig = "bullish" => r = RMax(<<0, 1>>, RSub(b, <<5, 100>>))
        /\ frame.sig \notin {"bearish", "bullish"} => r = b
        /\ RLe(RSub(r, b), h) /\ RLe(RSub(b, r), h)
        /\ coin_scores[frame.sym] = frame.base
        /\ RLe(Overlay(weights, frame.base_sum, "none").v,
               Overlay(weights, frame.base_sum, "bearish").v)
        /\ RLe(Overlay(weights, frame.base_sum, "bullish").v,
               Overlay(weights, frame.base_sum, "none").v)

\* C11 as stated (SpecOverlay): for every base score b and overlay weight
\* 0.10 the final risk is min(1, b + 0.05) for a bearish pattern,
\* max(0, b - 0.05) for a bullish one and b for none or an absent one; the
\* pattern moves the score by at most 0.5 * W.overlay, and
\* bearish >= none >= bullish for the same b.
C11_OverlayAsStated ==
    OverlayApplied => OverlayLaw

\* C11 amended (SpecOverlay): the same, for every base score b in [0, 1].
C11_OverlayBound ==
    (OverlayApplied /\ InUnit(frame.base_sum)) => OverlayLaw

\* A bearish pattern has been applied to a base score below 1 and the
\* result is capped at 1.
C11_Witness ==
    /\ OverlayApplied
    /\ InUnit(frame.base_sum)
    /\ frame.base_sum # One
    /\ frame.sig = "bearish"
    /\ frame.base = One

----------------------------------------------------------------------------
(* The sentiment classification in every spelling of its letters' case.    *)

UpperChar(c) ==
    CASE c = "a" -> "A" [] c = "b" -> "B" [] c = "e" -> "E" [] c = "h" -> "H"
      [] c = "i" -> "I" [] c = "l" -> "L" [] c = "n" -> "N" [] c = "r" -> "R"
      [] c = "s" -> "S" [] c = "t" -> "T" [] c = "u" -> "U"
      [] OTHER -> c

\* Every spelling of word in upper- and lower-case letters.
CaseVariants(word) ==
    {[i \in 1..Len(word) |-> IF up[i] THEN UpperChar(word[i]) ELSE word[i]] :
        up \in [1..Len(word) -> BOOLEAN]}

\* Classifications that are none of the three keys of sent_map.
OtherClassifications ==
    {S_Extreme_Fear,
     <<"F", "e", "a", "r">>,
     <<"G", "r", "e", "e", "d">>,
     <<"b", "e", "a", "r">>,
     <<"b", "e", "a", "r", "i", "s", "h", " ">>,
     <<"n", "e", "u", "t", "r", "a", "l", "s">>,
     <<>>}

SentInputs ==
    {MkData(<<"BTCUSDT">>, x, CycleHalf, [s \in Syms |-> AbsentRow], AllDict) :
        x \in {SentDict(Str(c)) :
                 c \in CaseVariants(S_bearish) \cup CaseVariants(S_neutral)
                         \cup CaseVariants(S_bullish) \cup OtherClassifications}
              \cup {SentAbsent, SentNull, SentDict(NoStr("absent")),
                    SentDict(NoStr("null"))}}

InitSent ==
    /\ weights = WEIGHTS
    /\ \E d \in SentInputs : Fresh(d)

SpecSent == InitSent /\ [][NextFuzz]_vars

\* The classification string of the input, if it has one.
HasClassification ==
    data.sentiment.k = "dict" /\ data.sentiment.classification.k = "str"

\* The classification of the input is missing: no sentiment section, or
\* a section without the key.
ClassificationAbsent ==
    \/ data.sentiment.k # "dict"
    \/ data.sentiment.classification.k = "absent"

\* The sentiment risk the input's classification stands for.
StatedSentimentRisk ==
    IF ~HasClassification THEN Q(50, 100)
    ELSE LET c == data.sentiment.classification.s
         IN  IF c \in CaseVariants(S_bearish) THEN Q(65, 100)
             ELSE IF c \in CaseVariants(S_neutral) THEN Q(50, 100)
             ELSE IF c \in CaseVariants(S_bullish) THEN Q(35, 100)
             ELSE Q(50, 100)

\* C12 (SpecSent): the sentiment risk is 0.65 for bearish, 0.50 for neutral
\* and 0.35 for bullish in any spelling of upper and lower case, 0.50 for
\* every other classification string and 0.50 when the classification is
\* absent; it is the risk the asset's base score is built from.
C12_SentimentMap ==
    ((HasClassification \/ ClassificationAbsent) /\ pc # "start")
        => /\ sentiment_risk = [k |-> "num", v |-> StatedSentimentRisk]
           /\ pc = "returned"
                => coin_scores["BTCUSDT"]
                     = [k |-> "num",
                        v |-> RAdd(RMul(Q(20, 100), StatedSentimentRisk),
                                   Q(35, 100))]

\* The run has returned for a classification spelt "BuLLisH"-like: mixed
\* case, neither all lower nor all upper, and the risk is 0.35.
C12_Witness ==
    /\ pc = "returned"
    /\ HasClassification
    /\ data.sentiment.classification.s = S_Bullish_mixed
    /\ sentiment_risk = Num(35, 100)

----------------------------------------------------------------------------
(* Repeated calls of compute_component_scores in one process.              *)

MaxCalls == 3   \* calls that return in one behaviour

BullishRow ==
    Row(TechDict(Tech(Num(20, 1), Num(1, 1), Num(0, 1), "True")),
        CmcDict(Num(15, 1)), BarDict("bullish"))

CallRows ==
    [s \in Syms |-> IF s = "BTCUSDT" THEN ScenarioRow ELSE BullishRow]

CallInputs ==
    {MkData(<<"BTCUSDT">>, SentDict(Str(S_bearish)), CycleDict(Num(1, 5)),
            CallRows, AllDict),
     MkData(<<"ETHUSDT">>, SentDict(Str(S_bearish)), CycleDict(Num(1, 5)),
            CallRows, AllDict),
     MkData(<<"BTCUSDT", "ETHUSDT">>, SentDict(Str(S_bearish)),
            CycleDict(Num(1, 5)), CallRows, AllDict),
     MkData(<<"ETHUSDT", "BTCUSDT">>, SentDict(Str(S_Bullish_mixed)),
            CycleDict(Num(4, 5)), CallRows, AllDict),
     MkData(<<"BTCUSDT">>, SentAbsent, CycleAbsent,
            [s \in Syms |-> AbsentRow], AllDict),
     MkData(<<>>, SentNeutral, CycleHalf, CallRows, AllDict)}

InitCalls ==
    /\ weights = WEIGHTS
    /\ \E d \in CallInputs : Fresh(d)

\* The caller invokes compute_component_scores again, on any input.  The
\* new frame's locals hold nothing the code may rely on: they are left as
\* the call before left them until the code assigns them.
Call ==
    /\ pc = "returned"
    /\ Len(calls) < MaxCalls
    /\ data' \in CallInputs
    /\ pc' = "start"
    /\ UNCHANGED <<weights, err, sentiment_risk, cycle_risk, idx, frame, kpi,
                   coin_scores, portfolio_risk, recommendations, rec, calls,
                   data_json>>

NextCalls == Resolve \/ ScoreCoin \/ Aggregate \/ Call

SpecCalls == InitCalls /\ [][NextCalls]_vars

\* Calls on the same input have returned the same tuple.
SameInputSameResult ==
    /\ \A i, j \in DOMAIN calls :
          calls[i].data = calls[j].data
             => /\ calls[i].portfolio_risk = calls[j].portfolio_risk
                /\ calls[i].coin_scores = calls[j].coin_scores
    /\ pc = "returned"
          => /\ calls[Len(calls)].data = data
             /\ calls[Len(calls)].portfolio_risk = portfolio_risk
             /\ calls[Len(calls)].coin_scores = coin_scores
             /\ DOMAIN coin_scores = Listed(data.coins)

\* A step of a call leaves the input and the weight table as they were.
InputsUntouched ==
    /\ weights' = weights
    /\ pc \in {"start", "loop"} => data' = data

\* C13 (SpecCalls): calls on the same input return the same portfolio risk
\* and the same per-asset scores whatever calls came in between, and no
\* step of a call changes its input or the weight table.
C13_Idempotent ==
    [](SameInputSameResult /\ weights = WEIGHTS) /\ [][InputsUntouched]_vars

\* Three calls have returned: the first and the third on the same input,
\* the second on another input and with other scores.
C13_Witness ==
    /\ Len(calls) = 3
    /\ pc = "returned"
    /\ calls[1].data = calls[3].data
    /\ calls[2].data # calls[1].data
    /\ calls[2].coin_scores # calls[1].coin_scores
    /\ calls[1].coin_scores # EmptyScores

----------------------------------------------------------------------------
(* The pipeline: collect_data.main writes data.json, analysis_engine.main  *)
(* loads it and scores it.                                                 *)

\* collect_data.derive_technical_risk
derive_technical_risk(rsi) ==
    IF IsNone(rsi) THEN Half
    ELSE IF FGe(rsi, Num(70, 1)) THEN One
    ELSE IF FLe(rsi, Num(30, 1)) THEN Zero
    ELSE FDiv(FSub(rsi, Num(30, 1)), Num(40, 1))

\* What compute_technicals returned for a symbol, or its failure.
Technicals(rsi, macd_hist, cycle) ==
    [failed |-> FALSE, rsi |-> rsi, macd_hist |-> macd_hist, cycle |-> cycle]
TechnicalsFailed ==
    [failed |-> TRUE, rsi |-> Absent, macd_hist |-> Absent, cycle |-> Absent]

\* What the network gave for one coin: the 24h change and the technicals.
Fetched(change_24h, tech) == [change_24h |-> change_24h, tech |-> tech]

\* coin_data[symbol], lines 255-262 (price and market cap are not read by
\* the engine and are left out).
CoinEntry(f) ==
    [change_24h     |-> f.change_24h,
     technical      |-> f.tech,
     technical_risk |-> IF f.tech.failed THEN Half
                        ELSE derive_technical_risk(f.tech.rsi),
     cycle_score    |-> GetOr(f.tech.cycle, None)]

\* cycle_values, lines 250-254, and avg_cycle, line 263.
CycleValue(f) == IF f.tech.failed THEN Half ELSE f.tech.cycle
AverageCycle(fetched) ==
    IF DOMAIN fetched = {} THEN Half
    ELSE FDiv(SumValues([s \in DOMAIN fetched |-> CycleValue(fetched[s])],
                        DOMAIN fetched),
              Num(Cardinality(DOMAIN fetched), 1))

\* The symbols of COINS in the order of the dict.
CoinOrder == <<"BTCUSDT", "ETHUSDT">>

\* A value of the output the engine has no use for.
Unread == [k |-> "unread"]

OutputKeys ==
    {"generated_at", "fear_greed_index", "sentiment_classification",
     "btc_dominance", "total_market_cap", "average_cycle", "videos", "coins"}

\* output, lines 265-274.
CollectOutput(fng_classification, fetched) ==
    [key \in OutputKeys |->
        CASE key = "sentiment_classification" -> fng_classification
          [] key = "average_cycle" -> AverageCycle(fetched)
          [] key = "coins" ->
                 [order |-> CoinOrder,
                  of |-> [s \in Listed(CoinOrder) |-> CoinEntry(fetched[s])]]
          [] OTHER -> Unread]

\* load_json("data.json") as compute_component_scores reads it: each
\* section under the key the engine asks for, absent when the file has no
\* such key; iterating the coins dict yields its keys in order.
EngineView(file) ==
    [coins     |-> IF "coins" \in DOMAIN file THEN file["coins"].order
                   ELSE <<>>,
     sentiment |-> IF "sentiment" \in DOMAIN file THEN file["sentiment"]
                   ELSE SentAbsent,
     cycle     |-> IF "cycle" \in DOMAIN file THEN file["cycle"]
                   ELSE CycleAbsent,
     three_bar |-> IF "three_bar" \in DOMAIN file THEN file["three_bar"]
                   ELSE [k |-> "absent",
                         of |-> [s \in Syms |-> BarMissing("absent")]],
     cmc       |-> IF "cmc" \in DOMAIN file THEN file["cmc"]
                   ELSE [k |-> "absent",
                         of |-> [b \in BaseSyms |-> CmcMissing("absent")]],
     technical |-> IF "technical" \in DOMAIN file THEN file["technical"]
                   ELSE [k |-> "absent",
                         of |-> [s \in Syms |-> TechMissing("absent")]]]

\* What the network can give in one collection.
FetchedBtc ==
    {Fetched(c, Technicals(r, Num(1, 10), y)) :
        c \in {None, Num(-12, 1), Num(15, 1)},
        r \in {None, Num(20, 1), Num(50, 1), Num(80, 1)},
        y \in {Zero, Half, One}}
      \cup {Fetched(c, TechnicalsFailed) : c \in {None, Num(-12, 1)}}
FetchedEth ==
    {Fetched(Num(0, 1), Technicals(Num(50, 1), Num(-1, 10), Half)),
     Fetched(None, TechnicalsFailed)}
FngClassifications ==
    {S_bearish, S_bullish, S_neutral, S_Extreme_Fear,
     <<"G", "r", "e", "e", "d">>}

InitPipeline ==
    /\ weights = WEIGHTS
    /\ data = EmptyData
    /\ pc = "collect"
    /\ calls = <<>>
    /\ data_json = NoFile
    /\ Locals0
    /\ kpi = NoKpi
    /\ rec = NoRec

\* collect_data.main
Collect ==
    /\ pc = "collect"
    /\ \E x \in FngClassifications, b \in FetchedBtc, e \in FetchedEth :
          data_json' =
              CollectOutput(x, [s \in Listed(CoinOrder) |->
                                  IF s = "BTCUSDT" THEN b ELSE e])
    /\ pc' = "load"
    /\ UNCHANGED <<weights, data, err, sentiment_risk, cycle_risk, idx, frame,
                   kpi, coin_scores, portfolio_risk, recommendations, rec,
                   calls>>

\* analysis_engine.main, line 316
Load ==
    /\ pc = "load"
    /\ data' = EngineView(data_json)
    /\ pc' = "start"
    /\ UNCHANGED <<weights, err, sentiment_risk, cycle_risk, idx, frame, kpi,
                   coin_scores, portfolio_risk, recommendations, rec, calls,
                   data_json>>

NextPipeline == Collect \/ Load \/ Resolve \/ ScoreCoin \/ Aggregate \/ Report

SpecPipeline == InitPipeline /\ [][NextPipeline]_vars

\* C14 (SpecPipeline): what compute_component_scores reads is what
\* collect_data.main wrote: the sentiment risk is that of the collected
\* classification, the cycle risk is 1 - the collected average cycle, and
\* for the asset scored last the 24h change and the RSI handed to
\* technical_risk_from_kpis are the collected ones.
C14_CollectedValuesScored ==
    pc \in {"loop", "returned", "done"}
        => /\ sentiment_risk
                = sent_map_get(Lower(data_json["sentiment_classification"]))
           /\ cycle_risk = CycleRisk(data_json["average_cycle"])
           /\ frame.sym # "(none)"
                => /\ frame.pct24 = data_json["coins"].of[frame.sym].change_24h
                   /\ kpi.tech.rsi14
                        = GetOr(data_json["coins"].of[frame.sym].technical.rsi,
                                None)

====
